---- MODULE Spec2Model ----
(***************************************************************************)
(* Signaling and call-state coordinator of p2p-text-chat.                  *)
(*                                                                         *)
(* The model follows p2p-text-chat/server.js: the three in-memory maps     *)
(* (activeConnections, activeCalls, pendingOffers), the socket.io handlers *)
(* that mutate them and the expiry sweep.  Node runs a handler to          *)
(* completion on one event loop, so a handler without an await is one      *)
(* action; the async connection and disconnect handlers touch the maps in  *)
(* one synchronous stretch each and are one action too (see there).        *)
(* The relay handlers of p2p-text-chat/server-https.js, which differ, are  *)
(* modelled next to them as a second server.  The invite handlers of both  *)
(* servers go to the external store and are modelled await by await; the   *)
(* store answers every request, with an error where mongoose raises one.   *)
(***************************************************************************)
EXTENDS Integers, Sequences, FiniteSets, TLC

(***************************************************************************)
(* Bounds of the exploration.                                              *)
(***************************************************************************)
MaxSockets == 3        \* connections opened over the whole run
MaxCalls   == 2        \* entries the activeCalls map may hold
MaxTicks   == 3        \* the clock stops after this many steps
MaxOffers  == 1        \* offers buffered for one user
MaxInvites == 2        \* invites ever written to the store
MaxChats   == 2        \* chats ever written to the store
MaxTasks   == 2        \* store-backed handlers in flight at one time
StoreTicks == 1        \* clock steps while chats are written

Users   == {"alice", "bob"}
ChatIds == {"c1"}
Sockets == 1..MaxSockets

NoSocket == 0
NoUser   == "none"
NoChat   == "none"
NoCallId == <<"none", 0>>

(***************************************************************************)
(* Program constants.                                                      *)
(***************************************************************************)
CALL_TIMEOUT_MS     == 30000
WEBRTC_TIMEOUT_MS   == 60000
OFFER_EXPIRATION_MS == 300000
HTTPS_OFFER_MAX_AGE_MS == 3600000

VARIABLES
    now,                \* Date.now()
    sockets,            \* socket id -> [user, pc]
    activeConnections,  \* userId -> socket id (NoSocket: no entry)
    activeCalls,        \* the Map as its entries in insertion order
    pendingOffers,      \* userId -> buffered offers (<<>>: no entry)
    watch,              \* the handlers whose requests and events are logged
                        \* ("calls": with the Call map they started from)
    sent,               \* what the last step emitted, in order, if logged
    last,               \* the request the last step handled, if logged
    prev,               \* the Call map that step started from, if logged
    invites,            \* the Invite collection, _id = position
    chats,              \* the Chat collection, in insertion order
    tasks,              \* handlers waiting at an await of the store
    isOnline            \* userId -> the isOnline field of the User document

vars == <<now, sockets, activeConnections, activeCalls, pendingOffers, watch, sent, last,
          prev, invites, chats, tasks, isOnline>>

(***************************************************************************)
(* Emitted events and handled requests, as uniform records.                *)
(***************************************************************************)
Msg(to, ev, chatId, callId, from, reason) ==
    [to |-> to, ev |-> ev, chatId |-> chatId, callId |-> callId,
     from |-> from, reason |-> reason]

Req(op, sock, user, target, chatId, callId, ok) ==
    [op |-> op, sock |-> sock, user |-> user, target |-> target,
     chatId |-> chatId, callId |-> callId, ok |-> ok]

\* a handler suspended at an await: its socket, its user, the request and
\* what it has read so far
Task(op, pc, sock, user, to, invite, response, loaded) ==
    [op |-> op, pc |-> pc, sock |-> sock, user |-> user, to |-> to,
     invite |-> invite, response |-> response, loaded |-> loaded]

Idle == Task("idle", "-", NoSocket, NoUser, NoUser, 0, "-", "-")

(***************************************************************************)
(* The log.  socket.io hands every emitted event to the transport; the     *)
(* model keeps the events of the last step, the request that step handled  *)
(* and the Call map it started from, for the handlers a specification      *)
(* names in watch.  A step of another handler leaves Quiet and no events.  *)
(* (Logging every handler at once multiplies the reachable states by the   *)
(* number of distinct requests and changes nothing the server does.)       *)
(***************************************************************************)
Quiet == Req("-", NoSocket, NoUser, NoUser, NoChat, NoCallId, TRUE)

Record(op, msgs, req) ==
    /\ sent' = IF op \in watch THEN msgs ELSE <<>>
    /\ last' = IF op \in watch THEN req ELSE Quiet
    /\ prev' = IF op \in watch /\ "calls" \in watch THEN activeCalls ELSE <<>>
    /\ watch' = watch

\* the log of a step that leaves the User documents as they are
Log(op, msgs, req) ==
    /\ Record(op, msgs, req)
    /\ UNCHANGED isOnline

\* the log of a step whose User.findByIdAndUpdate(userId, {isOnline: flag})
\* has been carried out, and that goes to no other collection
ObserveOnline(op, msgs, req, userId, flag) ==
    /\ Record(op, msgs, req)
    /\ isOnline' = [isOnline EXCEPT ![userId] = flag]
    /\ UNCHANGED <<invites, chats, tasks>>

\* the log of a step that does not go to the store
Observe(op, msgs, req) ==
    /\ Log(op, msgs, req)
    /\ UNCHANGED <<invites, chats, tasks>>

(***************************************************************************)
(* Sequence helpers.                                                       *)
(***************************************************************************)
RECURSIVE FlatMap(_, _)
FlatMap(F(_), s) ==
    IF s = <<>> THEN <<>> ELSE F(Head(s)) \o FlatMap(F, Tail(s))

RECURSIVE SetToSeq(_)
SetToSeq(S) ==
    IF S = {} THEN <<>>
    ELSE LET x == CHOOSE y \in S : \A z \in S : y <= z
         IN  <<x>> \o SetToSeq(S \ {x})

Count(s, P(_)) == Len(SelectSeq(s, P))

(***************************************************************************)
(* activeCalls helpers.                                                    *)
(***************************************************************************)
CallIdsOf(calls) == {calls[i].id : i \in DOMAIN calls}

HasCall(calls, id) == id \in CallIdsOf(calls)

GetCall(calls, id) ==
    calls[CHOOSE i \in DOMAIN calls : calls[i].id = id]

\* Map.delete(id)
DeleteCall(calls, id) == SelectSeq(calls, LAMBDA c : c.id # id)

\* Map.set(id, value): an existing key keeps its place in the iteration order
SetCall(calls, entry) ==
    IF HasCall(calls, entry.id)
    THEN [i \in DOMAIN calls |-> IF calls[i].id = entry.id THEN entry ELSE calls[i]]
    ELSE Append(calls, entry)

\* Array.from(activeCalls...).find(pred): the first entry in insertion order
FirstIndex(calls, P(_)) ==
    IF \E i \in DOMAIN calls : P(calls[i])
    THEN CHOOSE i \in DOMAIN calls :
            P(calls[i]) /\ \A j \in DOMAIN calls : P(calls[j]) => i <= j
    ELSE 0

generateCallId(chatId, t) == <<chatId, t>>

\* notifyCallEvent: emits when the user has a registry entry, and says so
Present(conns, userId) == userId \in DOMAIN conns /\ conns[userId] # NoSocket

\* a notifyCallEvent that reports success whoever the user is
NotifiedAlways(conns, userId) == TRUE

\* what notifyCallEvent returns: whether it emitted
Notified(conns, userId) == Present(conns, userId)

notifyCallEvent(conns, userId, ev, chatId, callId, from, reason) ==
    IF Present(conns, userId)
    THEN <<Msg(conns[userId], ev, chatId, callId, from, reason)>>
    ELSE <<>>

(***************************************************************************)
(* cleanExpiredOffers: the sweep over pendingOffers and activeCalls.       *)
(***************************************************************************)
ValidOffers(offers, t) ==
    SelectSeq(offers, LAMBDA o : (t - o.timestamp) < OFFER_EXPIRATION_MS)

CleanOffers(po, t) == [u \in DOMAIN po |-> ValidOffers(po[u], t)]

TimeoutOf(call) ==
    IF call.status = "accepted" THEN WEBRTC_TIMEOUT_MS ELSE CALL_TIMEOUT_MS

\* a sweep that also takes a Call whose age equals its timeout
ExpiredAtLimit(call, t) == t - call.timestamp >= TimeoutOf(call)

Expired(call, t) == t - call.timestamp > TimeoutOf(call)

ExpiredCalls(calls, t) == SelectSeq(calls, LAMBDA c : Expired(c, t))

KeptCalls(calls, t) == SelectSeq(calls, LAMBDA c : ~Expired(c, t))

TimeoutMsgs(conns, call) ==
       (IF Present(conns, call.callerUserId)
        THEN <<Msg(conns[call.callerUserId], "call-timeout", call.chatId, call.id, NoUser, "")>>
        ELSE <<>>)
    \o (IF Present(conns, call.calleeUserId)
        THEN <<Msg(conns[call.calleeUserId], "call-timeout", call.chatId, call.id, NoUser, "")>>
        ELSE <<>>)

SweepMsgs(conns, calls, t) ==
    LET F(c) == TimeoutMsgs(conns, c) IN FlatMap(F, ExpiredCalls(calls, t))

(***************************************************************************)
(* Initial state: a server that has just started.                          *)
(***************************************************************************)
InitLogging(ops) ==
    /\ now = 0
    /\ sockets = [s \in Sockets |-> [user |-> NoUser, pc |-> "free"]]
    /\ activeConnections = [u \in Users |-> NoSocket]
    /\ activeCalls = <<>>
    /\ pendingOffers = [u \in Users |-> <<>>]
    /\ watch = ops
    /\ sent = <<>>
    /\ last = Quiet
    /\ prev = <<>>
    /\ invites = <<>>
    /\ chats = <<>>
    /\ tasks = [k \in 1..MaxTasks |-> Idle]
    /\ isOnline = [u \in Users |-> FALSE]

Init == InitLogging({})

(***************************************************************************)
(* The clock.                                                              *)
(***************************************************************************)
\* The clock is read at multiples of CALL_TIMEOUT_MS: every threshold of the
\* program is one, so an age is below, at or above each of them, and two
\* requests may still be handled at one clock value.
Tick ==
    /\ now + CALL_TIMEOUT_MS <= MaxTicks * CALL_TIMEOUT_MS
    /\ now' = now + CALL_TIMEOUT_MS
    /\ Observe("tick",
               <<>>,
               Req("tick", NoSocket, NoUser, NoUser, NoChat, NoCallId, TRUE))
    /\ UNCHANGED <<sockets, activeConnections, activeCalls, pendingOffers>>

(***************************************************************************)
(* setInterval(() => cleanExpiredOffers(io), 60000)                        *)
(***************************************************************************)
Sweep ==
    /\ pendingOffers' = CleanOffers(pendingOffers, now)
    /\ activeCalls' = KeptCalls(activeCalls, now)
    /\ Observe("sweep",
               SweepMsgs(activeConnections, activeCalls, now),
               Req("sweep", NoSocket, NoUser, NoUser, NoChat, NoCallId, TRUE))
    /\ UNCHANGED <<now, sockets, activeConnections>>

(***************************************************************************)
(* io.on('connection'), for a socket that has passed the authentication    *)
(* middleware.  The handler awaits the store four times; in memory it only *)
(* writes the registry entry and delivers the buffered offers, in one      *)
(* synchronous stretch after the first await, and a socket that waits for  *)
(* the later awaits behaves like a client that has not sent a request yet. *)
(* The handler is therefore one step here.  Socket ids are never reused.   *)
(***************************************************************************)
FreshSocket ==
    IF \E s \in Sockets : sockets[s].pc = "free"
    THEN CHOOSE s \in Sockets :
            sockets[s].pc = "free" /\ \A r \in Sockets : sockets[r].pc = "free" => s <= r
    ELSE NoSocket

\* activeConnections.set(socket.userId.toString(), socket.id)
Register(conns, userId, s) == [conns EXCEPT ![userId] = s]

\* deliverPendingOffers: what the socket is sent after the sweep
DeliverMsgs(s, offers) ==
    [i \in DOMAIN offers |->
        Msg(s, "webrtc-offer", offers[i].chatId, NoCallId, offers[i].fromUserId, "")]

\* a socket the transport holds open
Live(s) == sockets[s].pc = "ready"

\* socket.broadcast.emit: every other connected socket
Broadcast(s, u, ev) ==
    LET seq == SetToSeq({r \in Sockets : r # s /\ Live(r)})
    IN  [i \in DOMAIN seq |-> Msg(seq[i], ev, NoChat, NoCallId, u, "")]

Connect(u) ==
    /\ FreshSocket # NoSocket
    /\ LET s     == FreshSocket
           conns == Register(activeConnections, u, s)
           po    == CleanOffers(pendingOffers, now)
       IN  /\ sockets' = [sockets EXCEPT ![s] = [user |-> u, pc |-> "ready"]]
           /\ activeConnections' = conns
           /\ activeCalls' = KeptCalls(activeCalls, now)
           /\ pendingOffers' = [po EXCEPT ![u] = <<>>]
           /\ ObserveOnline("connect",
                      SweepMsgs(conns, activeCalls, now)
                        \o DeliverMsgs(s, po[u])
                        \o <<Msg(s, "pending-invites", NoChat, NoCallId, NoUser, ""),
                             Msg(s, "active-chats", NoChat, NoCallId, NoUser, ""),
                             Msg(s, "online-users", NoChat, NoCallId, NoUser, "")>>
                        \o Broadcast(s, u, "user-joined"),
                      Req("connect", s, u, NoUser, NoChat, NoCallId, TRUE),
                      u, TRUE)
    /\ UNCHANGED now

Involves(call, userId) == call.callerUserId = userId \/ call.calleeUserId = userId

OtherParty(call, userId) ==
    IF call.callerUserId = userId THEN call.calleeUserId ELSE call.callerUserId

\* activeConnections.delete(socket.userId.toString())
Unregister(conns, userId, s) == [conns EXCEPT ![userId] = NoSocket]

\* a disconnect loop that looks at the caller only
EndCallsOfCaller(calls, userId) == SelectSeq(calls, LAMBDA c : c.callerUserId # userId)

\* the Call map after the disconnect loop
EndCallsOf(calls, userId) == SelectSeq(calls, LAMBDA c : ~Involves(c, userId))

\* a disconnect loop that tells nobody about the calls it ends
DisconnectMsgsNone(conns, calls, userId, ev, reason) == <<>>

\* what the disconnect loop emits: one event per call of the user, to the
\* other party when that one has a registry entry
DisconnectMsgs(conns, calls, userId, ev, reason) ==
    LET F(c) == IF Involves(c, userId)
                THEN notifyCallEvent(conns, OtherParty(c, userId), ev, c.chatId, c.id,
                                     NoUser, reason)
                ELSE <<>>
    IN  FlatMap(F, calls)

(***************************************************************************)
(* socket.on('disconnect'), from the await of User.findByIdAndUpdate on:   *)
(* drop the registry entry, end the user's calls, broadcast user-left.     *)
(* The segment before the await touches nothing in memory.                 *)
(***************************************************************************)
Disconnect(s) ==
    /\ sockets[s].pc = "ready"
    /\ LET u     == sockets[s].user
           conns == Unregister(activeConnections, u, s)
       IN  /\ activeConnections' = conns
           /\ activeCalls' = EndCallsOf(activeCalls, u)
           /\ ObserveOnline("disconnect",
                      DisconnectMsgs(conns, activeCalls, u, "call-ended",
                                     "Other user disconnected")
                        \o Broadcast(s, u, "user-left"),
                      Req("disconnect", s, u, NoUser, NoChat, NoCallId, TRUE),
                      u, FALSE)
    /\ sockets' = [sockets EXCEPT ![s] = [user |-> NoUser, pc |-> "closed"]]
    /\ UNCHANGED <<now, pendingOffers>>

\* a socket whose request handlers are registered and whose client is there
Ready(s) == sockets[s].pc = "ready"

(***************************************************************************)
(* socket.on('call-initiate')                                              *)
(***************************************************************************)
NewCall(chatId, caller, callee, t) ==
    [id |-> generateCallId(chatId, t), chatId |-> chatId, callerUserId |-> caller,
     calleeUserId |-> callee, status |-> "pending", timestamp |-> t]

\* the Call map after a call-initiate whose target is present
InitiateCalls(calls, chatId, caller, callee, t) ==
    SetCall(calls, NewCall(chatId, caller, callee, t))

CallInitiate(s, targetUserId, chatId) ==
    /\ Ready(s)
    /\ LET fromUserId == sockets[s].user
           callId     == generateCallId(chatId, now)
       IN  IF ~Notified(activeConnections, targetUserId)
           THEN /\ Observe("call-initiate",
                           <<Msg(s, "call-failed", chatId, NoCallId, targetUserId,
                                 "User is offline")>>,
                           Req("call-initiate", s, fromUserId, targetUserId, chatId,
                               NoCallId, FALSE))
                /\ UNCHANGED activeCalls
           ELSE /\ HasCall(activeCalls, callId) \/ Len(activeCalls) < MaxCalls
                /\ activeCalls' = InitiateCalls(activeCalls, chatId, fromUserId,
                                                targetUserId, now)
                /\ Observe("call-initiate",
                           notifyCallEvent(activeConnections, targetUserId, "test",
                                           NoChat, NoCallId, NoUser, "")
                        \o notifyCallEvent(activeConnections, targetUserId, "incoming-call",
                                           chatId, callId, fromUserId, "")
                        \o <<Msg(s, "call-initiated", chatId, callId, targetUserId, "")>>,
                           Req("call-initiate", s, fromUserId, targetUserId, chatId,
                               callId, TRUE))
    /\ UNCHANGED <<now, sockets, activeConnections, pendingOffers>>

\* the call ids a client may name: the live ones and one that no call has
\* (every id without an entry is handled alike)
GhostCallId == <<"c1", -1>>

CallIdInputs == CallIdsOf(activeCalls) \cup {GhostCallId}

(***************************************************************************)
(* socket.on('call-accept')                                                *)
(***************************************************************************)
\* an accept that leaves the timestamp of the invitation in place
AcceptCallsKeepTime(calls, callId, t) ==
    IF HasCall(calls, callId)
    THEN SetCall(calls, [GetCall(calls, callId) EXCEPT !.status = "accepted"])
    ELSE calls

\* if (call) { call.status = 'accepted'; call.timestamp = Date.now(); ... }
AcceptCalls(calls, callId, t) ==
    IF HasCall(calls, callId)
    THEN SetCall(calls, [GetCall(calls, callId) EXCEPT !.status = "accepted",
                                                       !.timestamp = t])
    ELSE calls

\* the user 'call-accepted' is addressed to
AcceptNotifyee(calls, callId, fromUserId) == fromUserId

CallAccept(s, callId, chatId, fromUserId) ==
    /\ Ready(s)
    /\ LET acceptingUserId == sockets[s].user
           notifyee        == AcceptNotifyee(activeCalls, callId, fromUserId)
           accepted        == AcceptCalls(activeCalls, callId, now)
       IN  IF Notified(activeConnections, notifyee)
           THEN /\ activeCalls' = accepted
                /\ Observe("call-accept",
                           notifyCallEvent(activeConnections, notifyee, "call-accepted",
                                           chatId, callId, acceptingUserId, "")
                        \o <<Msg(s, "call-accepted-wait-for-offer", chatId, callId,
                                 fromUserId, "")>>,
                           Req("call-accept", s, acceptingUserId, fromUserId, chatId,
                               callId, TRUE))
           ELSE /\ activeCalls' = DeleteCall(accepted, callId)
                /\ Observe("call-accept",
                           <<Msg(s, "call-failed", chatId, NoCallId, NoUser,
                                 "Caller is no longer online")>>,
                           Req("call-accept", s, acceptingUserId, fromUserId, chatId,
                               callId, FALSE))
    /\ UNCHANGED <<now, sockets, activeConnections, pendingOffers>>

(***************************************************************************)
(* socket.on('call-reject')                                                *)
(***************************************************************************)
CallReject(s, callId, chatId, fromUserId) ==
    /\ Ready(s)
    /\ activeCalls' = DeleteCall(activeCalls, callId)
    /\ Observe("call-reject",
               notifyCallEvent(activeConnections, fromUserId, "call-rejected", chatId,
                               callId, sockets[s].user, "Call declined"),
               Req("call-reject", s, sockets[s].user, fromUserId, chatId, callId, TRUE))
    /\ UNCHANGED <<now, sockets, activeConnections, pendingOffers>>

(***************************************************************************)
(* socket.on('webrtc-offer')                                               *)
(***************************************************************************)
\* the accepted Call that authorizes an offer from fromUserId to targetUserId
AuthorizesOffer(call, chatId, fromUserId, targetUserId) ==
    /\ call.chatId = chatId
    /\ call.status = "accepted"
    /\ call.callerUserId = fromUserId
    /\ call.calleeUserId = targetUserId

HasAcceptedCall(calls, chatId, fromUserId, targetUserId) ==
    \E i \in DOMAIN calls : AuthorizesOffer(calls[i], chatId, fromUserId, targetUserId)

\* Array.from(activeCalls.entries()).find(call.chatId === chatId && accepted),
\* then activeCalls.delete of what was found
DeleteAcceptedForChat(calls, chatId) ==
    LET P(c) == c.chatId = chatId /\ c.status = "accepted"
        i    == FirstIndex(calls, P)
    IN  IF i = 0 THEN calls ELSE DeleteCall(calls, calls[i].id)

WebrtcOffer(s, targetUserId, chatId) ==
    /\ Ready(s)
    /\ LET fromUserId == sockets[s].user IN
       IF ~HasAcceptedCall(activeCalls, chatId, fromUserId, targetUserId)
       THEN /\ Observe("webrtc-offer",
                       <<Msg(s, "webrtc-offer-rejected", chatId, NoCallId, NoUser,
                             "No accepted call found. Please initiate call first.")>>,
                       Req("webrtc-offer", s, fromUserId, targetUserId, chatId,
                           NoCallId, FALSE))
            /\ UNCHANGED activeCalls
       ELSE IF Present(activeConnections, targetUserId)
       THEN /\ Observe("webrtc-offer",
                       notifyCallEvent(activeConnections, targetUserId, "webrtc-offer",
                                       chatId, NoCallId, fromUserId, ""),
                       Req("webrtc-offer", s, fromUserId, targetUserId, chatId,
                           NoCallId, TRUE))
            /\ UNCHANGED activeCalls
       ELSE /\ Observe("webrtc-offer",
                       <<Msg(s, "webrtc-offer-rejected", chatId, NoCallId, NoUser,
                             "Target user is no longer online")>>,
                       Req("webrtc-offer", s, fromUserId, targetUserId, chatId,
                           NoCallId, FALSE))
            /\ activeCalls' = DeleteAcceptedForChat(activeCalls, chatId)
    /\ UNCHANGED <<now, sockets, activeConnections, pendingOffers>>

(***************************************************************************)
(* socket.on('webrtc-answer')                                              *)
(***************************************************************************)
WebrtcAnswer(s, targetUserId, chatId) ==
    /\ Ready(s)
    /\ IF Present(activeConnections, targetUserId)
       THEN /\ Observe("webrtc-answer",
                       notifyCallEvent(activeConnections, targetUserId, "webrtc-answer",
                                       chatId, NoCallId, sockets[s].user, ""),
                       Req("webrtc-answer", s, sockets[s].user, targetUserId, chatId,
                           NoCallId, TRUE))
            /\ activeCalls' = DeleteAcceptedForChat(activeCalls, chatId)
       ELSE /\ Observe("webrtc-answer",
                       <<>>,
                       Req("webrtc-answer", s, sockets[s].user, targetUserId, chatId,
                           NoCallId, FALSE))
            /\ UNCHANGED activeCalls
    /\ UNCHANGED <<now, sockets, activeConnections, pendingOffers>>

(***************************************************************************)
(* socket.on('webrtc-ice-candidate')                                       *)
(***************************************************************************)
\* a handler that forwards no candidate
IceCandidateDropped(conns, targetUserId, chatId, fromUserId) == <<>>

\* notifyCallEvent(io, targetUserId, 'webrtc-ice-candidate', {...})
IceCandidateMsgs(conns, targetUserId, chatId, fromUserId) ==
    notifyCallEvent(conns, targetUserId, "webrtc-ice-candidate", chatId, NoCallId,
                    fromUserId, "")

WebrtcIceCandidate(s, targetUserId, chatId) ==
    /\ Ready(s)
    /\ Observe("webrtc-ice-candidate",
               IceCandidateMsgs(activeConnections, targetUserId, chatId, sockets[s].user),
               Req("webrtc-ice-candidate", s, sockets[s].user, targetUserId, chatId,
                   NoCallId, Present(activeConnections, targetUserId)))
    /\ UNCHANGED <<now, sockets, activeConnections, activeCalls, pendingOffers>>

(***************************************************************************)
(* socket.on('webrtc-connected')                                           *)
(***************************************************************************)
WebrtcConnected(s, chatId) ==
    /\ Ready(s)
    /\ activeCalls' = DeleteAcceptedForChat(activeCalls, chatId)
    /\ Observe("webrtc-connected",
               <<>>,
               Req("webrtc-connected", s, sockets[s].user, NoUser, chatId, NoCallId, TRUE))
    /\ UNCHANGED <<now, sockets, activeConnections, pendingOffers>>

(***************************************************************************)
(* The server of server.js.                                                *)
(***************************************************************************)
Next ==
    \/ Tick
    \/ Sweep
    \/ \E u \in Users : Connect(u)
    \/ \E s \in Sockets : Disconnect(s)
    \/ \E s \in Sockets, t \in Users, c \in ChatIds : CallInitiate(s, t, c)
    \/ \E s \in Sockets, id \in CallIdInputs, f \in Users :
          CallAccept(s, id, id[1], f)
    \/ \E s \in Sockets, id \in CallIdInputs, f \in Users :
          CallReject(s, id, id[1], f)
    \/ \E s \in Sockets, t \in Users, c \in ChatIds : WebrtcOffer(s, t, c)
    \/ \E s \in Sockets, t \in Users, c \in ChatIds : WebrtcAnswer(s, t, c)
    \/ \E s \in Sockets, t \in Users, c \in ChatIds : WebrtcIceCandidate(s, t, c)
    \/ \E s \in Sockets, c \in ChatIds : WebrtcConnected(s, c)

(***************************************************************************)
(* The server over unbounded time.  Once the clock has reached LastTick    *)
(* the model stops counting it up and measures time back from the present  *)
(* instead: when CALL_TIMEOUT_MS pass, every Call's timestamp moves back   *)
(* by that much.  The sweep only reads now - timestamp, so this is the     *)
(* same passing of time; an age of OldestAge is above every timeout and is *)
(* not counted further.  pendingOffers is empty in every reachable state   *)
(* of this server and has nothing to move.  A call id holds the clock of   *)
(* its creation, so no Call is initiated after the clock stopped counting: *)
(* two Calls made at different times would get one id there.               *)
(***************************************************************************)
LastTick == MaxTicks * CALL_TIMEOUT_MS

OldestAge == CALL_TIMEOUT_MS + WEBRTC_TIMEOUT_MS

Older(call) ==
    [call EXCEPT !.timestamp = IF @ - CALL_TIMEOUT_MS < now - OldestAge
                               THEN now - OldestAge
                               ELSE @ - CALL_TIMEOUT_MS]

Elapse ==
    /\ now = LastTick
    /\ activeCalls' = [i \in DOMAIN activeCalls |-> Older(activeCalls[i])]
    /\ Observe("tick",
               <<>>,
               Req("tick", NoSocket, NoUser, NoUser, NoChat, NoCallId, TRUE))
    /\ UNCHANGED <<now, sockets, activeConnections, pendingOffers>>

NextForever ==
    \/ Tick
    \/ Elapse
    \/ Sweep
    \/ \E u \in Users : Connect(u)
    \/ \E s \in Sockets : Disconnect(s)
    \/ \E s \in Sockets, t \in Users, c \in ChatIds :
          now < LastTick /\ CallInitiate(s, t, c)
    \/ \E s \in Sockets, id \in CallIdInputs, f \in Users :
          CallAccept(s, id, id[1], f)
    \/ \E s \in Sockets, id \in CallIdInputs, f \in Users :
          CallReject(s, id, id[1], f)
    \/ \E s \in Sockets, t \in Users, c \in ChatIds : WebrtcOffer(s, t, c)
    \/ \E s \in Sockets, t \in Users, c \in ChatIds : WebrtcAnswer(s, t, c)
    \/ \E s \in Sockets, t \in Users, c \in ChatIds : WebrtcIceCandidate(s, t, c)
    \/ \E s \in Sockets, c \in ChatIds : WebrtcConnected(s, c)

(***************************************************************************)
(* The server of server-https.js.  Its call-initiate, call-accept and      *)
(* call-reject handlers are those of server.js line for line and are the   *)
(* actions above; its connection, disconnect and relay handlers differ.    *)
(* It runs no sweep.  Handlers that only relay an event or only read the   *)
(* store are left out.                                                     *)
(***************************************************************************)
\* a connection that is sent none of the buffered offers
HttpsDeliverNone(s, offers) == <<>>

\* the buffered offers, emitted to the new socket in buffer order
HttpsDeliverMsgs(s, offers) ==
    [i \in DOMAIN offers |->
        Msg(s, "webrtc-offer-received", offers[i].chatId, NoCallId,
            offers[i].fromUserId, "")]

\* io.on('connection'): no await, the handlers are registered at once
HttpsConnect(u) ==
    /\ FreshSocket # NoSocket
    /\ LET s == FreshSocket
       IN  /\ sockets' = [sockets EXCEPT ![s] = [user |-> u, pc |-> "ready"]]
           /\ activeConnections' = Register(activeConnections, u, s)
           /\ pendingOffers' = [pendingOffers EXCEPT ![u] = <<>>]
           /\ Observe("connect",
                      Broadcast(s, u, "user-joined")
                        \o <<Msg(s, "online-users", NoChat, NoCallId, NoUser, "")>>
                        \o HttpsDeliverMsgs(s, pendingOffers[u]),
                      Req("connect", s, u, NoUser, NoChat, NoCallId, TRUE))
    /\ UNCHANGED <<now, activeCalls>>

\* socket.on('disconnect'): the calls first, the registry entry after them
\* (the reason sent is the user's name followed by "disconnected")
HttpsDisconnect(s) ==
    /\ sockets[s].pc = "ready"
    /\ LET u == sockets[s].user
       IN  /\ activeCalls' = EndCallsOf(activeCalls, u)
           /\ activeConnections' = Unregister(activeConnections, u, s)
           /\ Observe("disconnect",
                      DisconnectMsgs(activeConnections, activeCalls, u, "call-failed",
                                     "disconnected")
                        \o Broadcast(s, u, "user-left"),
                      Req("disconnect", s, u, NoUser, NoChat, NoCallId, TRUE))
    /\ sockets' = [sockets EXCEPT ![s] = [user |-> NoUser, pc |-> "closed"]]
    /\ UNCHANGED <<now, pendingOffers>>

\* the buffer of a user after an offer was pushed and the old ones filtered
HttpsStoreOffer(offers, chatId, fromUserId, t) ==
    SelectSeq(Append(offers, [chatId |-> chatId, fromUserId |-> fromUserId,
                              timestamp |-> t]),
              LAMBDA o : o.timestamp > t - HTTPS_OFFER_MAX_AGE_MS)

\* socket.on('webrtc-offer'): no Call is looked up
HttpsWebrtcOffer(s, targetUserId, chatId) ==
    /\ Ready(s)
    /\ IF Present(activeConnections, targetUserId)
       THEN /\ Observe("webrtc-offer",
                       notifyCallEvent(activeConnections, targetUserId,
                                       "webrtc-offer-received", chatId, NoCallId,
                                       sockets[s].user, ""),
                       Req("webrtc-offer", s, sockets[s].user, targetUserId, chatId,
                           NoCallId, TRUE))
            /\ UNCHANGED pendingOffers
       ELSE /\ Len(pendingOffers[targetUserId]) < MaxOffers
            /\ pendingOffers' =
                  [pendingOffers EXCEPT ![targetUserId] =
                      HttpsStoreOffer(@, chatId, sockets[s].user, now)]
            /\ Observe("webrtc-offer",
                       <<>>,
                       Req("webrtc-offer", s, sockets[s].user, targetUserId, chatId,
                           NoCallId, TRUE))
    /\ UNCHANGED <<now, sockets, activeConnections, activeCalls>>

\* socket.on('webrtc-answer'): forwarded when the target is there
HttpsWebrtcAnswer(s, targetUserId, chatId) ==
    /\ Ready(s)
    /\ Observe("webrtc-answer",
               notifyCallEvent(activeConnections, targetUserId, "webrtc-answer-received",
                               chatId, NoCallId, sockets[s].user, ""),
               Req("webrtc-answer", s, sockets[s].user, targetUserId, chatId, NoCallId,
                   Present(activeConnections, targetUserId)))
    /\ UNCHANGED <<now, sockets, activeConnections, activeCalls, pendingOffers>>

\* socket.on('webrtc-ice-candidate')
HttpsWebrtcIceCandidate(s, targetUserId, chatId) ==
    /\ Ready(s)
    /\ Observe("webrtc-ice-candidate",
               notifyCallEvent(activeConnections, targetUserId,
                               "webrtc-ice-candidate-received", chatId, NoCallId,
                               sockets[s].user, ""),
               Req("webrtc-ice-candidate", s, sockets[s].user, targetUserId, chatId,
                   NoCallId, Present(activeConnections, targetUserId)))
    /\ UNCHANGED <<now, sockets, activeConnections, activeCalls, pendingOffers>>

NextHttps ==
    \/ Tick
    \/ \E u \in Users : HttpsConnect(u)
    \/ \E s \in Sockets : HttpsDisconnect(s)
    \/ \E s \in Sockets, t \in Users, c \in ChatIds : CallInitiate(s, t, c)
    \/ \E s \in Sockets, id \in CallIdInputs, f \in Users :
          CallAccept(s, id, id[1], f)
    \/ \E s \in Sockets, id \in CallIdInputs, f \in Users :
          CallReject(s, id, id[1], f)
    \/ \E s \in Sockets, t \in Users, c \in ChatIds : HttpsWebrtcOffer(s, t, c)
    \/ \E s \in Sockets, t \in Users, c \in ChatIds : HttpsWebrtcAnswer(s, t, c)
    \/ \E s \in Sockets, t \in Users, c \in ChatIds : HttpsWebrtcIceCandidate(s, t, c)

\* Time passing by the expiry window of a buffered offer at once (the window
\* is ten steps of Tick); once per run, which bounds the clock.
Wait ==
    /\ now < OFFER_EXPIRATION_MS
    /\ now' = now + OFFER_EXPIRATION_MS
    /\ Observe("tick",
               <<>>,
               Req("tick", NoSocket, NoUser, NoUser, NoChat, NoCallId, TRUE))
    /\ UNCHANGED <<sockets, activeConnections, activeCalls, pendingOffers>>

NextHttpsLong == NextHttps \/ Wait

(***************************************************************************)
(* Invites and chats.  send-invite and respond-invite are async handlers   *)
(* that go to the store several times; what another handler writes between *)
(* two of their awaits is seen by the later one.  A handler is one action  *)
(* per stretch between awaits, and a handler in flight is a task.  Lookups *)
(* in the User collection, which no handler here writes, are part of the   *)
(* step that receives the request.                                         *)
(*                                                                         *)
(* The store is mongoose over the schemas of models/Invite.js and          *)
(* models/Chat.js: save() validates the enum of Invite.status and throws   *)
(* on a value outside it, the unique index {from, to} of Invite and the    *)
(* unique chatId of Chat make an insert of a second such document throw,   *)
(* a save() that changes nothing writes nothing, and a save() of a changed *)
(* document that is no longer in the collection throws.                    *)
(***************************************************************************)
UnknownName == "nobody"

Usernames == Users \cup {UnknownName}

\* enum of Invite.status
InviteStatuses == {"pending", "accepted", "rejected"}

\* what a client may put into respond-invite.response
Responses == {"accept", "reject", "accepted"}

InviteIds == 1..MaxInvites

\* a document that findByIdAndDelete removed keeps its position
Stored(i) == i \in DOMAIN invites /\ invites[i].status # "deleted"

NewInvite(from, to) == [from |-> from, to |-> to, status |-> "pending"]

\* Invite.findOne({from, to, status: 'pending'})
PendingFromTo(from, to) ==
    \E i \in DOMAIN invites :
        /\ invites[i].from = from
        /\ invites[i].to = to
        /\ invites[i].status = "pending"

\* inviteSchema.index({from: 1, to: 1}, {unique: true})
InviteIndexClash(from, to) ==
    \E i \in DOMAIN invites :
        Stored(i) /\ invites[i].from = from /\ invites[i].to = to

\* Chat.findOne({participants: {$all: [a, b]}, isActive: true})
ChatOf(a, b) ==
    \E i \in DOMAIN chats :
        /\ a \in {chats[i].participants[1], chats[i].participants[2]}
        /\ b \in {chats[i].participants[1], chats[i].participants[2]}
        /\ chats[i].isActive

NewChat(from, to, t) ==
    [participants |-> <<from, to>>, chatId |-> <<from, to, t>>, isActive |-> TRUE]

\* chatId: {unique: true}
ChatIdClash(chatId) == \E i \in DOMAIN chats : chats[i].chatId = chatId

FreeTask ==
    IF \E k \in DOMAIN tasks : tasks[k] = Idle
    THEN CHOOSE k \in DOMAIN tasks :
            tasks[k] = Idle /\ \A j \in DOMAIN tasks : tasks[j] = Idle => k <= j
    ELSE 0

InviteReq(task, ok) ==
    [op |-> task.op, sock |-> task.sock, user |-> task.user, target |-> task.to,
     chatId |-> NoChat, callId |-> NoCallId, ok |-> ok, step |-> task.pc,
     invite |-> task.invite, response |-> task.response]

\* the request as the step that receives it logs it
Received(task) == [task EXCEPT !.pc = "receive"]

\* socket.emit('invite-error', reason)
InviteError(s, reason) == <<Msg(s, "invite-error", NoChat, NoCallId, NoUser, reason)>>

\* socket.emit('error', reason)
PlainError(s, reason) == <<Msg(s, "error", NoChat, NoCallId, NoUser, reason)>>

\* io.to(activeConnections.get(userId)).emit(ev, ...) if there is an entry
ToRegistered(conns, userId, ev, from) ==
    IF Present(conns, userId)
    THEN <<Msg(conns[userId], ev, NoChat, NoCallId, from, "")>>
    ELSE <<>>

(***************************************************************************)
(* socket.on('send-invite'), server.js                                     *)
(***************************************************************************)
SendInvite(s, toUsername) ==
    /\ Ready(s)
    /\ FreeTask # 0
    /\ LET user == sockets[s].user
           task == Task("send-invite", "findInvite", s, user, toUsername, 0, "-", "-")
       IN  IF toUsername \notin Users
           THEN /\ Log("send-invite", InviteError(s, "User not found"),
                       InviteReq(Received(task), FALSE))
                /\ UNCHANGED tasks
           ELSE IF toUsername = user
           THEN /\ Log("send-invite", InviteError(s, "Cannot invite yourself"),
                       InviteReq(Received(task), FALSE))
                /\ UNCHANGED tasks
           ELSE /\ Log("send-invite", <<>>, InviteReq(Received(task), TRUE))
                /\ tasks' = [tasks EXCEPT ![FreeTask] = task]
    /\ UNCHANGED <<now, sockets, activeConnections, activeCalls, pendingOffers, invites,
                   chats>>

SendInviteFindInvite(k) ==
    /\ tasks[k].op = "send-invite"
    /\ tasks[k].pc = "findInvite"
    /\ IF PendingFromTo(tasks[k].user, tasks[k].to)
       THEN /\ Log("send-invite", InviteError(tasks[k].sock, "Invite already sent"),
                   InviteReq(tasks[k], FALSE))
            /\ tasks' = [tasks EXCEPT ![k] = Idle]
       ELSE /\ Log("send-invite", <<>>, InviteReq(tasks[k], TRUE))
            /\ tasks' = [tasks EXCEPT ![k].pc = "findChat"]
    /\ UNCHANGED <<now, sockets, activeConnections, activeCalls, pendingOffers, invites,
                   chats>>

SendInviteFindChat(k) ==
    /\ tasks[k].op = "send-invite"
    /\ tasks[k].pc = "findChat"
    /\ IF ChatOf(tasks[k].user, tasks[k].to)
       THEN /\ Log("send-invite",
                   InviteError(tasks[k].sock, "Chat already exists with this user"),
                   InviteReq(tasks[k], FALSE))
            /\ tasks' = [tasks EXCEPT ![k] = Idle]
       ELSE /\ Log("send-invite", <<>>, InviteReq(tasks[k], TRUE))
            /\ tasks' = [tasks EXCEPT ![k].pc = "save"]
    /\ UNCHANGED <<now, sockets, activeConnections, activeCalls, pendingOffers, invites,
                   chats>>

SendInviteSave(k) ==
    /\ tasks[k].op = "send-invite"
    /\ tasks[k].pc = "save"
    /\ Len(invites) < MaxInvites
    /\ IF InviteIndexClash(tasks[k].user, tasks[k].to)
       THEN /\ Log("send-invite", InviteError(tasks[k].sock, "Failed to send invite"),
                   InviteReq(tasks[k], FALSE))
            /\ UNCHANGED invites
       ELSE /\ invites' = Append(invites, NewInvite(tasks[k].user, tasks[k].to))
            /\ Log("send-invite",
                   ToRegistered(activeConnections, tasks[k].to, "new-invite", tasks[k].user)
                     \o <<Msg(tasks[k].sock, "invite-sent", NoChat, NoCallId,
                              tasks[k].to, "")>>,
                   InviteReq(tasks[k], TRUE))
    /\ tasks' = [tasks EXCEPT ![k] = Idle]
    /\ UNCHANGED <<now, sockets, activeConnections, activeCalls, pendingOffers, chats>>

(***************************************************************************)
(* socket.on('respond-invite'), server.js                                  *)
(***************************************************************************)
\* a check that lets every user answer every invite
IsRecipientAnyone(inv, userId) == TRUE

\* invite.to.toString() === socket.userId.toString()
IsRecipient(inv, userId) == inv.to = userId

RespondInvite(s, inviteId, response) ==
    /\ Ready(s)
    /\ FreeTask # 0
    /\ LET user == sockets[s].user
           task == Task("respond-invite", "save", s, user, NoUser, inviteId, response,
                        IF Stored(inviteId) THEN invites[inviteId].status ELSE "-")
       IN  IF ~Stored(inviteId)
           THEN /\ Log("respond-invite", PlainError(s, "Invite not found"),
                       InviteReq(Received(task), FALSE))
                /\ UNCHANGED tasks
           ELSE IF ~IsRecipient(invites[inviteId], user)
           THEN /\ Log("respond-invite", PlainError(s, "Unauthorized"),
                       InviteReq(Received(task), FALSE))
                /\ UNCHANGED tasks
           ELSE /\ Log("respond-invite", <<>>, InviteReq(Received(task), TRUE))
                /\ tasks' = [tasks EXCEPT ![FreeTask] = task]
    /\ UNCHANGED <<now, sockets, activeConnections, activeCalls, pendingOffers, invites,
                   chats>>

\* invite.save() of a document whose status was set to newStatus
SaveThrows(task, newStatus) ==
    /\ newStatus # task.loaded
    /\ \/ newStatus \notin InviteStatuses
       \/ ~Stored(task.invite)

SavedInvites(task, newStatus) ==
    IF newStatus = task.loaded
    THEN invites
    ELSE [invites EXCEPT ![task.invite].status = newStatus]

\* invite.status = response; await invite.save(); and, for a response other
\* than 'accept', the notification of the sender
RespondInviteSave(k) ==
    /\ tasks[k].op = "respond-invite"
    /\ tasks[k].pc = "save"
    /\ LET inv == invites[tasks[k].invite]
       IN  IF SaveThrows(tasks[k], tasks[k].response)
           THEN /\ Log("respond-invite",
                       PlainError(tasks[k].sock, "Failed to respond to invite"),
                       InviteReq(tasks[k], FALSE))
                /\ tasks' = [tasks EXCEPT ![k] = Idle]
                /\ UNCHANGED invites
           ELSE /\ invites' = SavedInvites(tasks[k], tasks[k].response)
                /\ IF tasks[k].response = "accept"
                   THEN /\ Log("respond-invite", <<>>, InviteReq(tasks[k], TRUE))
                        /\ tasks' = [tasks EXCEPT ![k].pc = "saveChat"]
                   ELSE /\ Log("respond-invite",
                               ToRegistered(activeConnections, inv.from,
                                            "invite-rejected", inv.to),
                               InviteReq(tasks[k], TRUE))
                        /\ tasks' = [tasks EXCEPT ![k] = Idle]
    /\ UNCHANGED <<now, sockets, activeConnections, activeCalls, pendingOffers, chats>>

\* await chat.save() and the two invite-accepted events.  'accept' is not a
\* value of the status enum, so the save before it throws and no task of
\* server.js ever waits here.
RespondInviteSaveChat(k) ==
    /\ tasks[k].op = "respond-invite"
    /\ tasks[k].pc = "saveChat"
    /\ Len(chats) < MaxChats
    /\ LET inv    == invites[tasks[k].invite]
           chatId == <<inv.from, inv.to, now>>
       IN  IF ChatIdClash(chatId)
           THEN /\ Log("respond-invite",
                       PlainError(tasks[k].sock, "Failed to respond to invite"),
                       InviteReq(tasks[k], FALSE))
                /\ UNCHANGED chats
           ELSE /\ chats' = Append(chats, NewChat(inv.from, inv.to, now))
                /\ Log("respond-invite",
                       ToRegistered(activeConnections, inv.from, "invite-accepted", inv.to)
                         \o <<Msg(tasks[k].sock, "invite-accepted", NoChat, NoCallId,
                                  inv.from, "")>>,
                       InviteReq(tasks[k], TRUE))
    /\ tasks' = [tasks EXCEPT ![k] = Idle]
    /\ UNCHANGED <<now, sockets, activeConnections, activeCalls, pendingOffers, invites>>

\* server.js with its invite handlers.  The call handlers do not touch the
\* store and are left to Next, and no step taken here reads the clock.
NextInvites ==
    \/ \E u \in Users : Connect(u)
    \/ \E s \in Sockets : Disconnect(s)
    \/ \E s \in Sockets, n \in Usernames : SendInvite(s, n)
    \/ \E k \in DOMAIN tasks : SendInviteFindInvite(k)
    \/ \E k \in DOMAIN tasks : SendInviteFindChat(k)
    \/ \E k \in DOMAIN tasks : SendInviteSave(k)
    \/ \E s \in Sockets, i \in InviteIds, r \in Responses : RespondInvite(s, i, r)
    \/ \E k \in DOMAIN tasks : RespondInviteSave(k)

(***************************************************************************)
(* socket.on('send-invite'), server-https.js                               *)
(***************************************************************************)
\* Invite.findOne({$or: [{from, to}, {from: to, to: from}], status: 'pending'})
PendingBetween(a, b) == PendingFromTo(a, b) \/ PendingFromTo(b, a)

\* Array.from(io.sockets.sockets.values()).find(s => s.userId === userId)
SocketOf(userId) ==
    IF \E s \in Sockets : Live(s) /\ sockets[s].user = userId
    THEN CHOOSE s \in Sockets :
            /\ Live(s) /\ sockets[s].user = userId
            /\ \A r \in Sockets : (Live(r) /\ sockets[r].user = userId) => s <= r
    ELSE NoSocket

\* targetSocket.emit(ev, ...) if the user has an open socket
ToSocketOf(userId, ev, from) ==
    IF SocketOf(userId) # NoSocket
    THEN <<Msg(SocketOf(userId), ev, NoChat, NoCallId, from, "")>>
    ELSE <<>>

HttpsSendInvite(s, toUsername) ==
    /\ Ready(s)
    /\ FreeTask # 0
    /\ LET user == sockets[s].user
           task == Task("send-invite", "findInvite", s, user, toUsername, 0, "-", "-")
       IN  IF toUsername \notin Users
           THEN /\ Log("send-invite", PlainError(s, "User not found"),
                       InviteReq(Received(task), FALSE))
                /\ UNCHANGED tasks
           ELSE /\ Log("send-invite", <<>>, InviteReq(Received(task), TRUE))
                /\ tasks' = [tasks EXCEPT ![FreeTask] = task]
    /\ UNCHANGED <<now, sockets, activeConnections, activeCalls, pendingOffers, invites,
                   chats>>

HttpsSendInviteFindInvite(k) ==
    /\ tasks[k].op = "send-invite"
    /\ tasks[k].pc = "findInvite"
    /\ IF PendingBetween(tasks[k].user, tasks[k].to)
       THEN /\ Log("send-invite",
                   PlainError(tasks[k].sock, "Invite already exists between these users"),
                   InviteReq(tasks[k], FALSE))
            /\ tasks' = [tasks EXCEPT ![k] = Idle]
       ELSE /\ Log("send-invite", <<>>, InviteReq(tasks[k], TRUE))
            /\ tasks' = [tasks EXCEPT ![k].pc = "save"]
    /\ UNCHANGED <<now, sockets, activeConnections, activeCalls, pendingOffers, invites,
                   chats>>

HttpsSendInviteSave(k) ==
    /\ tasks[k].op = "send-invite"
    /\ tasks[k].pc = "save"
    /\ Len(invites) < MaxInvites
    /\ IF InviteIndexClash(tasks[k].user, tasks[k].to)
       THEN /\ Log("send-invite",
                   PlainError(tasks[k].sock, "Invite already exists between these users"),
                   InviteReq(tasks[k], FALSE))
            /\ UNCHANGED invites
       ELSE /\ invites' = Append(invites, NewInvite(tasks[k].user, tasks[k].to))
            /\ Log("send-invite",
                   ToSocketOf(tasks[k].to, "new-invite", tasks[k].user)
                     \o <<Msg(tasks[k].sock, "invite-sent", NoChat, NoCallId,
                              tasks[k].to, "")>>,
                   InviteReq(tasks[k], TRUE))
    /\ tasks' = [tasks EXCEPT ![k] = Idle]
    /\ UNCHANGED <<now, sockets, activeConnections, activeCalls, pendingOffers, chats>>

(***************************************************************************)
(* socket.on('respond-invite'), server-https.js                            *)
(***************************************************************************)
\* statusMap[response] || response
DbStatus(response) ==
    IF response = "accept" THEN "accepted"
    ELSE IF response = "reject" THEN "rejected"
    ELSE response

HttpsRespondInvite(s, inviteId, response) ==
    /\ Ready(s)
    /\ FreeTask # 0
    /\ LET user == sockets[s].user
           task == Task("respond-invite", "save", s, user, NoUser, inviteId, response,
                        IF Stored(inviteId) THEN invites[inviteId].status ELSE "-")
       IN  IF ~Stored(inviteId)
           THEN /\ Log("respond-invite", PlainError(s, "Invite not found"),
                       InviteReq(Received(task), FALSE))
                /\ UNCHANGED tasks
           ELSE IF ~IsRecipient(invites[inviteId], user)
           THEN /\ Log("respond-invite", PlainError(s, "Access denied"),
                       InviteReq(Received(task), FALSE))
                /\ UNCHANGED tasks
           ELSE /\ Log("respond-invite", <<>>, InviteReq(Received(task), TRUE))
                /\ tasks' = [tasks EXCEPT ![FreeTask] = task]
    /\ UNCHANGED <<now, sockets, activeConnections, activeCalls, pendingOffers, invites,
                   chats>>

\* invite.status = dbStatus; await invite.save()
HttpsRespondInviteSave(k) ==
    /\ tasks[k].op = "respond-invite"
    /\ tasks[k].pc = "save"
    /\ IF SaveThrows(tasks[k], DbStatus(tasks[k].response))
       THEN /\ Log("respond-invite",
                   PlainError(tasks[k].sock, "Failed to respond to invite"),
                   InviteReq(tasks[k], FALSE))
            /\ tasks' = [tasks EXCEPT ![k] = Idle]
            /\ UNCHANGED invites
       ELSE /\ invites' = SavedInvites(tasks[k], DbStatus(tasks[k].response))
            /\ Log("respond-invite", <<>>, InviteReq(tasks[k], TRUE))
            /\ tasks' = [tasks EXCEPT ![k].pc = IF tasks[k].response = "accept"
                                                 THEN "saveChat"
                                                 ELSE "delete"]
    /\ UNCHANGED <<now, sockets, activeConnections, activeCalls, pendingOffers, chats>>

\* await chat.save() and the two invite-accepted events
HttpsRespondInviteSaveChat(k) ==
    /\ tasks[k].op = "respond-invite"
    /\ tasks[k].pc = "saveChat"
    /\ Len(chats) < MaxChats
    /\ LET inv    == invites[tasks[k].invite]
           chatId == <<inv.from, inv.to, now>>
       IN  IF ChatIdClash(chatId)
           THEN /\ Log("respond-invite",
                       PlainError(tasks[k].sock, "Failed to respond to invite"),
                       InviteReq(tasks[k], FALSE))
                /\ tasks' = [tasks EXCEPT ![k] = Idle]
                /\ UNCHANGED chats
           ELSE /\ chats' = Append(chats, NewChat(inv.from, inv.to, now))
                /\ Log("respond-invite",
                       ToSocketOf(inv.from, "invite-accepted", tasks[k].user)
                         \o <<Msg(tasks[k].sock, "invite-accepted", NoChat, NoCallId,
                                  inv.from, "")>>,
                       InviteReq(tasks[k], TRUE))
                /\ tasks' = [tasks EXCEPT ![k].pc = "delete"]
    /\ UNCHANGED <<now, sockets, activeConnections, activeCalls, pendingOffers, invites>>

\* await Invite.findByIdAndDelete(inviteId)
HttpsRespondInviteDelete(k) ==
    /\ tasks[k].op = "respond-invite"
    /\ tasks[k].pc = "delete"
    /\ invites' = [invites EXCEPT ![tasks[k].invite].status = "deleted"]
    /\ Log("respond-invite", <<>>, InviteReq(tasks[k], TRUE))
    /\ tasks' = [tasks EXCEPT ![k] = Idle]
    /\ UNCHANGED <<now, sockets, activeConnections, activeCalls, pendingOffers, chats>>

\* server-https.js with its invite handlers, for invites to another user
\* (the handler has no check against inviting oneself) and sockets that
\* stay open.  A chat id holds the clock, which is read at StoreTicks + 1
\* values: two chats can be written at one clock value or at two.
NextHttpsInvites ==
    \/ now < StoreTicks * CALL_TIMEOUT_MS /\ Tick
    \/ \E u \in Users : HttpsConnect(u)
    \/ \E s \in Sockets, n \in Usernames :
          n # sockets[s].user /\ HttpsSendInvite(s, n)
    \/ \E k \in DOMAIN tasks : HttpsSendInviteFindInvite(k)
    \/ \E k \in DOMAIN tasks : HttpsSendInviteSave(k)
    \/ \E s \in Sockets, i \in InviteIds, r \in Responses : HttpsRespondInvite(s, i, r)
    \/ \E k \in DOMAIN tasks : HttpsRespondInviteSave(k)
    \/ \E k \in DOMAIN tasks : HttpsRespondInviteSaveChat(k)
    \/ \E k \in DOMAIN tasks : HttpsRespondInviteDelete(k)

(***************************************************************************)
(* The connection of server.js await by await.  io.use(authenticate) runs  *)
(* before the connection handler; the handler awaits the store four times  *)
(* and registers the socket's listeners, 'disconnect' among them, only     *)
(* after its try/catch.  A socket that the transport closes before that    *)
(* has no disconnect listener: nothing runs for it, and the handler goes   *)
(* on to its remaining awaits.  An await of the setup may reject; the      *)
(* catch reports it to the socket and the listeners are registered all the *)
(* same.                                                                   *)
(***************************************************************************)
NoToken == [user |-> NoUser, sig |-> "none"]

\* what a client may put into socket.handshake.auth.token: nothing, a token
\* signed with JWT_SECRET, or one that jwt.verify rejects; for a user of the
\* store or for one that has no User document
Tokens == {NoToken} \cup [user : Usernames, sig : {"good", "bad"}]

\* a middleware that trusts the user id of every token
authenticateAll(token) == token.user

\* authenticate: the user the socket is given, NoUser when next(error)
authenticate(token) ==
    IF token = NoToken THEN NoUser
    ELSE IF token.sig # "good" THEN NoUser
    ELSE IF token.user \notin Users THEN NoUser
    ELSE token.user

SetupPcs == {"update", "invites", "chats", "users"}

GonePcs == {"update-gone", "invites-gone", "chats-gone", "users-gone"}

\* the socket was closed by the transport
Gone(pc) == pc \in GonePcs

\* where the handler stands after its next await
AfterAwait(pc) ==
    CASE pc = "update"       -> "invites"
      [] pc = "invites"      -> "chats"
      [] pc = "chats"        -> "users"
      [] pc = "users"        -> "ready"
      [] pc = "update-gone"  -> "invites-gone"
      [] pc = "invites-gone" -> "chats-gone"
      [] pc = "chats-gone"   -> "users-gone"
      [] pc = "users-gone"   -> "closed"

\* socket.emit on a socket the transport has closed reaches nobody
ToSelf(s, msgs) == IF Gone(sockets[s].pc) THEN <<>> ELSE msgs

HandshakeReq(s, token, ok) ==
    [op |-> "handshake", sock |-> s, user |-> authenticate(token), target |-> NoUser,
     chatId |-> NoChat, callId |-> NoCallId, ok |-> ok, token |-> token]

SetupReq(s, ok) ==
    Req("setup", s, sockets[s].user, NoUser, NoChat, NoCallId, ok)

\* io.use(authenticate), and the start of the connection handler up to its
\* first await
Handshake(token) ==
    /\ FreshSocket # NoSocket
    /\ LET s == FreshSocket
           u == authenticate(token)
       IN  IF u = NoUser
           THEN /\ Observe("handshake", <<>>, HandshakeReq(NoSocket, token, FALSE))
                /\ UNCHANGED sockets
           ELSE /\ sockets' = [sockets EXCEPT ![s] = [user |-> u, pc |-> "update"]]
                /\ Observe("handshake", <<>>, HandshakeReq(s, token, TRUE))
    /\ UNCHANGED <<now, activeConnections, activeCalls, pendingOffers>>

\* after await User.findByIdAndUpdate: activeConnections.set and
\* deliverPendingOffers
SetupRegister(s) ==
    /\ sockets[s].pc \in {"update", "update-gone"}
    /\ LET u     == sockets[s].user
           conns == Register(activeConnections, u, s)
           po    == CleanOffers(pendingOffers, now)
       IN  /\ activeConnections' = conns
           /\ activeCalls' = KeptCalls(activeCalls, now)
           /\ pendingOffers' = [po EXCEPT ![u] = <<>>]
           /\ ObserveOnline("setup",
                      SweepMsgs(conns, activeCalls, now) \o ToSelf(s, DeliverMsgs(s, po[u])),
                      SetupReq(s, TRUE), u, TRUE)
    /\ sockets' = [sockets EXCEPT ![s].pc = AfterAwait(@)]
    /\ UNCHANGED now

\* after await Invite.find: socket.emit('pending-invites')
SetupInvites(s) ==
    /\ sockets[s].pc \in {"invites", "invites-gone"}
    /\ Observe("setup",
               ToSelf(s, <<Msg(s, "pending-invites", NoChat, NoCallId, NoUser, "")>>),
               SetupReq(s, TRUE))
    /\ sockets' = [sockets EXCEPT ![s].pc = AfterAwait(@)]
    /\ UNCHANGED <<now, activeConnections, activeCalls, pendingOffers>>

\* after await Chat.find: socket.emit('active-chats')
SetupChats(s) ==
    /\ sockets[s].pc \in {"chats", "chats-gone"}
    /\ Observe("setup",
               ToSelf(s, <<Msg(s, "active-chats", NoChat, NoCallId, NoUser, "")>>),
               SetupReq(s, TRUE))
    /\ sockets' = [sockets EXCEPT ![s].pc = AfterAwait(@)]
    /\ UNCHANGED <<now, activeConnections, activeCalls, pendingOffers>>

\* after await User.find: socket.emit('online-users'), the user-joined
\* broadcast, and the socket.on(...) registrations
SetupUsers(s) ==
    /\ sockets[s].pc \in {"users", "users-gone"}
    /\ Observe("setup",
               ToSelf(s, <<Msg(s, "online-users", NoChat, NoCallId, NoUser, "")>>)
                 \o Broadcast(s, sockets[s].user, "user-joined"),
               SetupReq(s, TRUE))
    /\ sockets' = [sockets EXCEPT ![s].pc = AfterAwait(@)]
    /\ UNCHANGED <<now, activeConnections, activeCalls, pendingOffers>>

\* an await of the setup rejects: catch, socket.emit('error'), and the
\* socket.on(...) registrations
SetupFail(s) ==
    /\ sockets[s].pc \in SetupPcs \cup GonePcs
    /\ Observe("setup",
               ToSelf(s, PlainError(s, "Connection setup failed")),
               SetupReq(s, FALSE))
    /\ sockets' = [sockets EXCEPT ![s].pc = IF Gone(@) THEN "closed" ELSE "ready"]
    /\ UNCHANGED <<now, activeConnections, activeCalls, pendingOffers>>

\* the transport closes a socket whose setup is still under way: the
\* 'disconnect' event finds no listener
Drop(s) ==
    /\ sockets[s].pc \in SetupPcs
    /\ sockets' = [sockets EXCEPT ![s].pc =
                      CASE @ = "update"  -> "update-gone"
                        [] @ = "invites" -> "invites-gone"
                        [] @ = "chats"   -> "chats-gone"
                        [] @ = "users"   -> "users-gone"]
    /\ Observe("drop", <<>>, SetupReq(s, TRUE))
    /\ UNCHANGED <<now, activeConnections, activeCalls, pendingOffers>>

NextSetup ==
    \/ \E token \in Tokens : Handshake(token)
    \/ \E s \in Sockets : SetupRegister(s)
    \/ \E s \in Sockets : SetupInvites(s)
    \/ \E s \in Sockets : SetupChats(s)
    \/ \E s \in Sockets : SetupUsers(s)
    \/ \E s \in Sockets : SetupFail(s)
    \/ \E s \in Sockets : Drop(s)
    \/ \E s \in Sockets : Disconnect(s)

(***************************************************************************)
(* POST /api/auth/login with the credentials of a user of the store: the   *)
(* handler sets user.isOnline = true and saves the document.  No socket is *)
(* involved; the client connects later with the token, or never.           *)
(***************************************************************************)
Login(u) ==
    /\ ObserveOnline("login", <<>>,
                     Req("login", NoSocket, u, NoUser, NoChat, NoCallId, TRUE), u, TRUE)
    /\ UNCHANGED <<now, sockets, activeConnections, activeCalls, pendingOffers>>

\* the server with its login route
NextPresence ==
    \/ \E u \in Users : Login(u)
    \/ \E u \in Users : Connect(u)
    \/ \E s \in Sockets : Disconnect(s)
    \/ \E s \in Sockets, t \in Users, c \in ChatIds : CallInitiate(s, t, c)

\* the client requests that delete from activeCalls
RemovingOps == {"call-reject", "webrtc-answer", "webrtc-connected"}

\* the server, nothing logged: the maps alone
Spec == Init /\ [][Next]_vars

\* the server with one handler logged
SpecOffer      == InitLogging({"webrtc-offer"}) /\ [][Next]_vars
SpecInitiate   == InitLogging({"call-initiate"}) /\ [][Next]_vars
SpecAccept     == InitLogging({"call-accept"}) /\ [][Next]_vars
SpecDisconnect == InitLogging({"disconnect", "calls"}) /\ [][Next]_vars
SpecSweep      == InitLogging({"sweep", "connect"}) /\ [][Next]_vars
SpecComplete   == InitLogging({"webrtc-answer", "webrtc-connected"}) /\ [][Next]_vars
SpecReject     == InitLogging({"call-reject"}) /\ [][Next]_vars
SpecInvites    == Init /\ [][NextInvites]_vars
SpecHttpsInvites == Init /\ [][NextHttpsInvites]_vars
SpecRespond    == InitLogging({"respond-invite"}) /\ [][NextInvites]_vars
SpecSendInvite == InitLogging({"send-invite"}) /\ [][NextInvites]_vars
SpecIce        == InitLogging({"webrtc-ice-candidate"}) /\ [][Next]_vars
SpecRemove     == InitLogging(RemovingOps) /\ [][Next]_vars
SpecPresence   == Init /\ [][NextPresence]_vars
SpecSetup      == InitLogging({"handshake"}) /\ [][NextSetup]_vars

\* Time passes and the timer of line 291 fires for ever: the clock moves on
\* whenever it can, and a sweep that has something to remove again and
\* again does run.
SpecForever ==
    /\ Init
    /\ [][NextForever]_vars
    /\ WF_vars(Tick)
    /\ WF_vars(Elapse)
    /\ SF_vars(Sweep)

\* the server of server-https.js with one handler logged
SpecHttpsOffer      == InitLogging({"webrtc-offer"}) /\ [][NextHttps]_vars
SpecHttpsDisconnect == InitLogging({"disconnect", "calls"}) /\ [][NextHttps]_vars
SpecHttpsConnect    == InitLogging({"connect"}) /\ [][NextHttps]_vars
SpecHttpsExpiry     == InitLogging({"connect"}) /\ [][NextHttpsLong]_vars

(***************************************************************************)
(* Properties.                                                             *)
(***************************************************************************)
\* events that carry an offer to a client
OfferEvents == {"webrtc-offer", "webrtc-offer-received"}

\* C1: a webrtc-offer request for which no accepted Call with that chat id,
\* the sender as caller and the target as callee exists forwards nothing,
\* stores no Pending Offer and is answered to the sender with
\* webrtc-offer-rejected.
C1_UnauthorizedOfferRejected ==
    [][(/\ last'.op = "webrtc-offer"
        /\ ~HasAcceptedCall(activeCalls, last'.chatId, last'.user, last'.target))
       => /\ \A i \in DOMAIN sent' : sent'[i].ev \notin OfferEvents
          /\ pendingOffers' = pendingOffers
          /\ \E i \in DOMAIN sent' :
                sent'[i].to = last'.sock /\ sent'[i].ev = "webrtc-offer-rejected"]_vars

\* C1, the case reached: an offer was handled while the Call map was empty
C1_OfferWithoutCall ==
    last.op = "webrtc-offer" /\ activeCalls = <<>>

\* C2: a connection of U on a new handle maps U to that handle, and the
\* disconnect of a handle that U is no longer mapped to leaves U's entry as
\* it is.
C2_StaleDisconnectKeepsEntry ==
    [][\A s \in Sockets :
          /\ (sockets[s].pc = "free" /\ sockets'[s].pc = "ready")
                => activeConnections'[sockets'[s].user] = s
          /\ (/\ sockets[s].pc = "ready"
              /\ sockets'[s].pc = "closed"
              /\ activeConnections[sockets[s].user] # s)
                => activeConnections'[sockets[s].user]
                     = activeConnections[sockets[s].user]]_vars

\* C2, the case reached: U has two open handles and is mapped to the later
C2_TwoHandles ==
    \E h1, h2 \in Sockets :
        /\ h1 < h2
        /\ sockets[h1].pc = "ready" /\ sockets[h2].pc = "ready"
        /\ sockets[h1].user = sockets[h2].user
        /\ activeConnections[sockets[h1].user] = h2

\* the status a call id has in a Call map
StatusOf(calls, id) == IF HasCall(calls, id) THEN GetCall(calls, id).status ELSE "absent"

\* C3: the status of a call id only changes absent -> pending,
\* pending -> accepted, pending -> absent or accepted -> absent.
C3_StatusTransitions ==
    [][\A id \in CallIdsOf(activeCalls) \cup CallIdsOf(activeCalls') :
          \/ StatusOf(activeCalls', id) = StatusOf(activeCalls, id)
          \/ <<StatusOf(activeCalls, id), StatusOf(activeCalls', id)>>
                \in {<<"absent", "pending">>, <<"pending", "accepted">>,
                     <<"pending", "absent">>, <<"accepted", "absent">>}]_vars

\* C3, the case reached: an accepted Call exists
C3_AcceptedCall ==
    \E i \in DOMAIN activeCalls : activeCalls[i].status = "accepted"

\* C4: no two entries of the Call map have the same chat id.
C4_OneCallPerChat ==
    \A i, j \in DOMAIN activeCalls :
        activeCalls[i].chatId = activeCalls[j].chatId => i = j

\* C4, the case reached: a chat has a Call
C4_ChatHasCall ==
    \E i \in DOMAIN activeCalls : activeCalls[i].chatId \in ChatIds

\* events that tell a party its call is over
TerminalEvents == {"call-ended", "call-failed"}

C6_SweepNotifiesBothOnce ==
    [][last'.op \in {"sweep", "connect"} =>
         \A i \in DOMAIN activeCalls :
            LET c == activeCalls[i] IN
            (/\ c.callerUserId # c.calleeUserId
             /\ \/ c.status = "pending" /\ now - c.timestamp > 30000
                \/ c.status = "accepted" /\ now - c.timestamp > 60000)
            => /\ ~HasCall(activeCalls', c.id)
               /\ \A p \in {c.callerUserId, c.calleeUserId} :
                     Cardinality({k \in DOMAIN sent' :
                                     /\ sent'[k].ev = "call-timeout"
                                     /\ sent'[k].callId = c.id
                                     /\ sockets'[sent'[k].to].user = p}) = 1]_vars

\* C6, the case reached: a sweep timed a Call out and told two sockets
C6_SweepTimedOut ==
    /\ last.op \in {"sweep", "connect"}
    /\ \E j, k \in DOMAIN sent :
          /\ j # k
          /\ sent[j].ev = "call-timeout" /\ sent[k].ev = "call-timeout"
          /\ sent[j].callId = sent[k].callId
          /\ sent[j].to # sent[k].to

C8_OfflineCalleeNoCall ==
    [][(last'.op = "call-initiate" /\ ~Present(activeConnections, last'.target))
       => /\ activeCalls' = activeCalls
          /\ \E k \in DOMAIN sent' :
                /\ sent'[k].to = last'.sock
                /\ sent'[k].ev = "call-failed"
                /\ sent'[k].reason = "User is offline"
          /\ \A k \in DOMAIN sent' : sent'[k].to = last'.sock]_vars

\* C8, the case reached: a call-initiate failed while the Call map held a Call
C8_InitiateFailed ==
    /\ last.op = "call-initiate"
    /\ ~last.ok
    /\ activeCalls # <<>>

\* C9: a call-accept naming a call id without an entry sends no
\* call-accepted and no call-accepted-wait-for-offer and leaves the Call map
\* as it is.
C9_AcceptUnknownCallFails ==
    [][(last'.op = "call-accept" /\ ~HasCall(activeCalls, last'.callId))
       => /\ activeCalls' = activeCalls
          /\ \A k \in DOMAIN sent' :
                sent'[k].ev \notin {"call-accepted", "call-accepted-wait-for-offer"}]_vars

\* C9, the case reached: a call-accept named a call id without an entry
C9_AcceptOfGhost ==
    last.op = "call-accept" /\ last.callId = GhostCallId

\* C10: a call-accept naming a Call sends call-accepted to the connection of
\* the Call's callerUserId and to no other, whatever caller the request
\* names; if that caller has no registry entry the accepting socket is sent
\* call-failed and the Call is deleted.
C10_AcceptNotifiesRecordedCaller ==
    [][(last'.op = "call-accept" /\ HasCall(activeCalls, last'.callId))
       => LET c == GetCall(activeCalls, last'.callId) IN
          IF Present(activeConnections, c.callerUserId)
          THEN /\ \E k \in DOMAIN sent' : sent'[k].ev = "call-accepted"
               /\ \A k \in DOMAIN sent' :
                     sent'[k].ev = "call-accepted"
                        => sent'[k].to = activeConnections[c.callerUserId]
          ELSE /\ \E k \in DOMAIN sent' :
                     sent'[k].ev = "call-failed" /\ sent'[k].to = last'.sock
               /\ ~HasCall(activeCalls', c.id)]_vars

\* C10, the case reached: a call-accept named a Call and another caller
C10_AcceptNamesOtherCaller ==
    /\ last.op = "call-accept"
    /\ HasCall(activeCalls, last.callId)
    /\ GetCall(activeCalls, last.callId).callerUserId # last.target

\* C11: the case of an authorized offer whose target has no registry entry.
\* Every Call's callee has a registry entry: call-initiate creates a Call
\* only for a registered callee, and the one handler that removes a registry
\* entry (disconnect) removes every Call of that user in the same stretch.
C11_CalleeRegistered ==
    \A i \in DOMAIN activeCalls :
        Present(activeConnections, activeCalls[i].calleeUserId)

\* C11: server.js never buffers an offer (storePendingOffer has no caller)
C11_NothingBuffered ==
    \A u \in Users : pendingOffers[u] = <<>>

\* C12: a connection of T is sent every offer buffered for T, once each and
\* in buffer order, and T's buffer is empty afterwards (so that a later
\* connection of T is sent none of them).
C12_ConnectDeliversBuffer ==
    [][last'.op = "connect" =>
         LET T == last'.user
             IsOffer(m) == m.ev \in OfferEvents
             got == SelectSeq(sent', IsOffer)
         IN  /\ Len(got) = Len(pendingOffers[T])
             /\ \A i \in DOMAIN got :
                   /\ got[i].to = last'.sock
                   /\ got[i].chatId = pendingOffers[T][i].chatId
                   /\ got[i].from = pendingOffers[T][i].fromUserId
             /\ pendingOffers'[T] = <<>>]_vars

\* C12, the case reached: a connection was sent a buffered offer
C12_OfferDelivered ==
    /\ last.op = "connect"
    /\ \E k \in DOMAIN sent : sent[k].ev \in OfferEvents /\ sent[k].to = last.sock
    /\ pendingOffers[last.user] = <<>>

\* C13: a connection of T is sent the offers buffered for T that are
\* younger than 5 minutes and none that has reached that age, and T's buffer
\* is empty afterwards; a sweep keeps the younger offers and drops the rest.
C13_ExpiredOfferNotDelivered ==
    [][/\ last'.op = "connect" =>
            LET T == last'.user
                IsOffer(m) == m.ev \in OfferEvents
                Young(o) == now - o.timestamp < 300000
                got == SelectSeq(sent', IsOffer)
                due == SelectSeq(pendingOffers[T], Young)
            IN  /\ Len(got) = Len(due)
                /\ \A i \in DOMAIN got :
                      /\ got[i].to = last'.sock
                      /\ got[i].chatId = due[i].chatId
                      /\ got[i].from = due[i].fromUserId
                /\ pendingOffers'[T] = <<>>
       /\ last'.op = "sweep" =>
            \A u \in Users :
               pendingOffers'[u]
                  = SelectSeq(pendingOffers[u], LAMBDA o : now - o.timestamp < 300000)]_vars

\* C13, the case reached: T connects while an offer of 5 minutes ago is
\* buffered for T
C13_OldOfferAtConnect ==
    /\ last.op = "connect"
    /\ now >= 300000
    /\ \E k \in DOMAIN sent : sent[k].ev \in OfferEvents /\ sent[k].to = last.sock

\* C14: a webrtc-answer for chat X whose target has a registry entry is
\* forwarded to the target's socket and leaves no accepted Call for chat X;
\* one whose target has none forwards nothing and leaves the Call map as it
\* is.
C14_AnswerCompletesCall ==
    [][last'.op = "webrtc-answer" =>
         IF Present(activeConnections, last'.target)
         THEN /\ \E k \in DOMAIN sent' :
                    /\ sent'[k].ev = "webrtc-answer"
                    /\ sent'[k].to = activeConnections[last'.target]
                    /\ sent'[k].chatId = last'.chatId
              /\ \A i \in DOMAIN activeCalls' :
                    ~(/\ activeCalls'[i].chatId = last'.chatId
                      /\ activeCalls'[i].status = "accepted")
         ELSE /\ sent' = <<>>
              /\ activeCalls' = activeCalls]_vars

\* C14, the case reached: an answer was forwarded and an accepted Call of
\* its chat is still in the map
C14_AcceptedCallLeft ==
    /\ last.op = "webrtc-answer"
    /\ last.ok
    /\ sent # <<>>
    /\ \E i \in DOMAIN activeCalls :
          /\ activeCalls[i].chatId = last.chatId
          /\ activeCalls[i].status = "accepted"

\* C15: after a webrtc-connected for a chat no Call of that chat is left.
C15_ConnectedClearsChat ==
    [][last'.op = "webrtc-connected" =>
         \A i \in DOMAIN activeCalls' : activeCalls'[i].chatId # last'.chatId]_vars

\* C15, the case reached: a webrtc-connected was handled and a Call of its
\* chat is still in the map
C15_CallLeftAfterConnected ==
    /\ last.op = "webrtc-connected"
    /\ \E i \in DOMAIN activeCalls : activeCalls[i].chatId = last.chatId

\* C16: a call-reject leaves no entry for its call id and no other entry
\* changed, whatever was there (so a second one changes nothing), and when
\* it removes a Call it sends call-rejected, with the reason, to the
\* connection of that Call's caller.
C16_RejectRemovesAndNotifies ==
    [][last'.op = "call-reject" =>
         /\ activeCalls' = DeleteCall(activeCalls, last'.callId)
         /\ DeleteCall(activeCalls', last'.callId) = activeCalls'
         /\ HasCall(activeCalls, last'.callId) =>
               LET c == GetCall(activeCalls, last'.callId) IN
               \E k \in DOMAIN sent' :
                  /\ sent'[k].ev = "call-rejected"
                  /\ sent'[k].reason = "Call declined"
                  /\ sockets'[sent'[k].to] = [user |-> c.callerUserId, pc |-> "ready"]]_vars

\* C16, the map half alone: what call-reject does to the Call map
C16_RejectIdempotent ==
    [][last'.op = "call-reject" =>
         /\ activeCalls' = DeleteCall(activeCalls, last'.callId)
         /\ DeleteCall(activeCalls', last'.callId) = activeCalls']_vars

\* C16, the case reached: a call-reject named an id that has no entry while
\* another Call is in the map
C16_RejectOfAbsent ==
    /\ last.op = "call-reject"
    /\ last.callId = GhostCallId
    /\ activeCalls # <<>>

\* C17: a Call that becomes accepted gets the time of the accept as its
\* timestamp, and a sweep that runs less than WEBRTC_TIMEOUT_MS after that
\* timestamp keeps the accepted Call as it is, however long ago the Call
\* was initiated.
C17_AcceptRestartsTimeout ==
    [][/\ \A id \in CallIdsOf(activeCalls') :
             (/\ StatusOf(activeCalls', id) = "accepted"
              /\ StatusOf(activeCalls, id) # "accepted")
             => GetCall(activeCalls', id).timestamp = now
       /\ last'.op \in {"sweep", "connect"} =>
             \A i \in DOMAIN activeCalls :
                (/\ activeCalls[i].status = "accepted"
                 /\ now < activeCalls[i].timestamp + WEBRTC_TIMEOUT_MS)
                => \E j \in DOMAIN activeCalls' : activeCalls'[j] = activeCalls[i]]_vars

\* C17, the case reached: a sweep has run and kept an accepted Call that was
\* initiated more than CALL_TIMEOUT_MS before
C17_LateAcceptSurvivesSweep ==
    /\ last.op = "sweep"
    /\ \E i \in DOMAIN activeCalls :
          /\ activeCalls[i].status = "accepted"
          /\ now - activeCalls[i].id[2] > CALL_TIMEOUT_MS
          /\ now < activeCalls[i].timestamp + WEBRTC_TIMEOUT_MS

\* C18: no Call stays in the Call map for ever: whatever its id, the map is
\* without an entry for it again and again.
C18_EveryCallRemoved ==
    \A c \in ChatIds : \A k \in 0..MaxTicks :
        []<>(~HasCall(activeCalls, generateCallId(c, k * CALL_TIMEOUT_MS)))

\* C18, the case reached: an accepted Call that was initiated longer ago than
\* both timeouts is in the map, its timestamp younger than its id
C18_OldCallStillAccepted ==
    \E i \in DOMAIN activeCalls :
        /\ activeCalls[i].status = "accepted"
        /\ now = LastTick
        /\ activeCalls[i].id[2] = 0
        /\ activeCalls[i].timestamp = now

\* the two users of an invite or of a chat, without their order
PairOfInvite(inv) == {inv.from, inv.to}

\* C19: for every two users at most one invite between them, in either
\* direction, has status pending.
C19_OnePendingPerPair ==
    \A i \in DOMAIN invites : \A j \in DOMAIN invites :
        (/\ i # j
         /\ invites[i].status = "pending"
         /\ invites[j].status = "pending")
        => PairOfInvite(invites[i]) # PairOfInvite(invites[j])

\* C19, the case reached: an invite from one user to another is pending and
\* an invite back is pending as well
C19_InviteBothWays ==
    \E i \in DOMAIN invites : \E j \in DOMAIN invites :
        /\ invites[i].status = "pending"
        /\ invites[j].status = "pending"
        /\ invites[j].from = invites[i].to
        /\ invites[j].to = invites[i].from
        /\ \A k \in DOMAIN tasks : tasks[k] = Idle

PairOfChat(chat) == {chat.participants[1], chat.participants[2]}

\* C20: for every two users at most one active chat has them as its
\* participants, and no step stores an invite between two users who have
\* an active chat.
C20_OneChatPerPair ==
    [][/\ \A i \in DOMAIN chats' : \A j \in DOMAIN chats' :
             (i # j /\ chats'[i].isActive /\ chats'[j].isActive)
             => PairOfChat(chats'[i]) # PairOfChat(chats'[j])
       /\ Len(invites') > Len(invites) =>
             ~ChatOf(invites'[Len(invites')].from, invites'[Len(invites')].to)]_vars

\* C20, the case reached: two active chats of one pair of users are stored
C20_TwoChatsOfPair ==
    \E i \in DOMAIN chats : \E j \in DOMAIN chats :
        /\ i # j
        /\ chats[i].isActive /\ chats[j].isActive
        /\ PairOfChat(chats[i]) = PairOfChat(chats[j])

\* C20, the other case reached: with no handler in flight, an invite is
\* pending between two users who have an active chat
C20_InviteBesideChat ==
    /\ \A k \in DOMAIN tasks : tasks[k] = Idle
    /\ \E i \in DOMAIN invites :
          /\ invites[i].status = "pending"
          /\ ChatOf(invites[i].from, invites[i].to)

\* the invites that were answered: their status was saved as accepted or
\* rejected, or they were deleted after the answer
Responded(invs) ==
    {i \in DOMAIN invs : invs[i].status \in {"accepted", "rejected", "deleted"}}

\* C21: a respond-invite that arrives for an invite that was already
\* answered is refused with 'Invite not found' and starts nothing, and there
\* are never more chats than answered invites (one invite gives one chat at
\* most, however often it is accepted).
C21_RespondOnce ==
    [][/\ (/\ last'.op = "respond-invite"
           /\ last'.step = "receive"
           /\ last'.invite \in Responded(invites))
          => /\ sent' = PlainError(last'.sock, "Invite not found")
             /\ tasks' = tasks
       /\ Len(chats') <= Cardinality(Responded(invites'))]_vars

\* C21, the case reached: two chats are stored and one invite was answered
C21_TwoChatsOfOneInvite ==
    /\ Len(chats) = 2
    /\ Cardinality(Responded(invites)) = 1

\* a respond-invite handler is still working on invite i
BeingAnswered(i) ==
    \E k \in DOMAIN tasks : tasks[k].op = "respond-invite" /\ tasks[k].invite = i

\* C22: once the respond-invite that answered an invite has finished, the
\* invite is no longer in the store: no invite with a saved status accepted
\* or rejected is left behind.
C22_AnsweredInviteDeleted ==
    \A i \in DOMAIN invites :
        invites[i].status \in {"accepted", "rejected"} => BeingAnswered(i)

\* C22, the case reached: an answered invite is in the store and no handler
\* is in flight
C22_AnsweredInviteKept ==
    /\ \A k \in DOMAIN tasks : tasks[k] = Idle
    /\ \E i \in DOMAIN invites : invites[i].status \in {"accepted", "rejected"}

\* C23: every chat has the sender and the recipient of an accepted invite as
\* its participants, and every invite whose acceptance was saved has its
\* chat once the handler has finished.
C23_ChatIffAccepted ==
    /\ \A c \in DOMAIN chats :
          \E i \in DOMAIN invites :
             /\ invites[i].status \in {"accepted", "deleted"}
             /\ chats[c].participants = <<invites[i].from, invites[i].to>>
    /\ \A i \in DOMAIN invites :
          (invites[i].status = "accepted" /\ ~BeingAnswered(i))
          => \E c \in DOMAIN chats :
                chats[c].participants = <<invites[i].from, invites[i].to>>

\* C23, the case reached: an invite is stored as accepted, its handler has
\* finished and there is no chat
C23_AcceptedWithoutChat ==
    /\ chats = <<>>
    /\ \E i \in DOMAIN invites : invites[i].status = "accepted" /\ ~BeingAnswered(i)

ErrorEvents == {"invite-error", "error"}

\* C24: a send-invite step that fails leaves the invites as they are and
\* emits one event, an error with a reason, to the socket of the request;
\* and an invite is stored only when the target is a known user other than
\* the sender, no invite between the two is pending in either direction and
\* the two have no active chat.
C24_FailedInviteStoresNothing ==
    [][last'.op = "send-invite" =>
         /\ ~last'.ok =>
               /\ invites' = invites
               /\ Len(sent') = 1
               /\ sent'[1].to = last'.sock
               /\ sent'[1].ev \in ErrorEvents
               /\ sent'[1].reason # ""
         /\ invites' # invites =>
               /\ last'.ok
               /\ last'.target \in Users
               /\ last'.target # last'.user
               /\ ~PendingBetween(last'.user, last'.target)
               /\ ~ChatOf(last'.user, last'.target)]_vars

\* C24, the case reached: a send-invite was refused because the sender's
\* invite to the target is pending
C24_DuplicateRefused ==
    /\ last.op = "send-invite"
    /\ ~last.ok
    /\ last.step = "findInvite"
    /\ sent # <<>>

\* C25: a respond-invite for a stored invite from a user who is not its
\* recipient is answered with the error 'Unauthorized' and nothing else:
\* the invites (the status of this one too) and the chats stay as they are
\* and no handler goes on to the store.
C25_OnlyRecipientResponds ==
    [][(/\ last'.op = "respond-invite"
        /\ last'.step = "receive"
        /\ Stored(last'.invite)
        /\ invites[last'.invite].to # last'.user)
       => /\ sent' = PlainError(last'.sock, "Unauthorized")
          /\ invites' = invites
          /\ chats' = chats
          /\ tasks' = tasks]_vars

\* C25, the case reached: the sender of a pending invite tried to answer it
\* and was refused
C25_SenderRefused ==
    /\ last.op = "respond-invite"
    /\ last.step = "receive"
    /\ Stored(last.invite)
    /\ invites[last.invite].from = last.user
    /\ invites[last.invite].status = "pending"
    /\ sent = PlainError(last.sock, "Unauthorized")

\* C26: every Call in the call map has a Chat in the store whose participants
\* are the call's two parties (the Chat its chat id would have to name).
C26_CallNeedsChat ==
    \A i \in DOMAIN activeCalls :
        \E c \in DOMAIN chats :
            PairOfChat(chats[c]) = {activeCalls[i].callerUserId, activeCalls[i].calleeUserId}

\* a Call stands in the map and the store holds no Chat at all
C26_CallWithoutChat == activeCalls # <<>> /\ chats = <<>>

\* C27: a connection attempt whose token is missing, is rejected by
\* jwt.verify, or names a user without a User document changes neither the
\* registry nor the sockets nor the offer buffer, and sends nothing.
C27_RefusedHandshakeNoEffect ==
    [][(/\ last'.op = "handshake"
        /\ \/ last'.token = NoToken
           \/ last'.token.sig # "good"
           \/ last'.token.user \notin Users)
       => /\ activeConnections' = activeConnections
          /\ sockets' = sockets
          /\ pendingOffers' = pendingOffers
          /\ activeCalls' = activeCalls
          /\ sent' = <<>>]_vars

\* a token that jwt.verify rejects, for a user of the store, was refused
C27_ForgedTokenRefused ==
    /\ last.op = "handshake"
    /\ last.token.sig = "bad"
    /\ last.token.user \in Users
    /\ ~last.ok
    /\ ~Present(activeConnections, last.token.user)

\* C28: the registry maps no user to a connection that has disconnected and
\* whose handlers have all finished.
C28_RegistryOnlyLive ==
    \A u \in Users :
        Present(activeConnections, u) => sockets[activeConnections[u]].pc # "closed"

\* the socket a user is registered with was closed during its setup, and the
\* setup has run to its end
C28_StaleEntry ==
    \E u \in Users :
        /\ Present(activeConnections, u)
        /\ sockets[activeConnections[u]] = [user |-> u, pc |-> "closed"]

\* C30: a webrtc-ice-candidate request sends the candidate to the socket the
\* registry holds for the target, with the chat id and the sender, and sends
\* nothing when the registry has no entry for the target; the call map, the
\* offer buffer and the registry are left as they were.
C30_IceForwardedOrDropped ==
    [][last'.op = "webrtc-ice-candidate"
       => /\ sent' = IF activeConnections[last'.target] # NoSocket
                     THEN <<Msg(activeConnections[last'.target], "webrtc-ice-candidate",
                                last'.chatId, NoCallId, last'.user, "")>>
                     ELSE <<>>
          /\ activeCalls' = activeCalls
          /\ pendingOffers' = pendingOffers
          /\ activeConnections' = activeConnections]_vars

\* a candidate went to the socket of a target that is party to a Call
C30_IceForwarded ==
    /\ last.op = "webrtc-ice-candidate"
    /\ Len(sent) = 1
    /\ sent[1].to = activeConnections[last.target]
    /\ last.target # last.user
    /\ activeCalls # <<>>

\* a candidate for a target without a registry entry went nowhere
C30_IceDropped ==
    /\ last.op = "webrtc-ice-candidate"
    /\ ~Present(activeConnections, last.target)
    /\ sent = <<>>

\* the place of an event in the order of a connection: buffered offers, then
\* the user's pending invites, their chats, the users online, the broadcast
ConnectRank(ev) ==
    CASE ev \in {"webrtc-offer", "webrtc-offer-received"} -> 1
      [] ev = "pending-invites" -> 2
      [] ev = "active-chats"    -> 3
      [] ev = "online-users"    -> 4
      [] ev = "user-joined"     -> 5
      [] OTHER                  -> 0

\* C29: a connection writes the registry entry of its user and then sends, in
\* this order, the buffered offers, pending-invites, active-chats and
\* online-users to the new socket and the user-joined broadcast to the
\* others, the three lists once each.
C29_ConnectOrder ==
    [][last'.op = "connect"
       => /\ activeConnections'[last'.user] = last'.sock
          /\ \A i, j \in DOMAIN sent' :
                i < j => ConnectRank(sent'[i].ev) <= ConnectRank(sent'[j].ev)
          /\ \A ev \in {"pending-invites", "active-chats", "online-users"} :
                Cardinality({i \in DOMAIN sent' :
                                sent'[i].ev = ev /\ sent'[i].to = last'.sock}) = 1]_vars

\* a connection told the others of the new user before it delivered the
\* offers buffered for that user
C29_JoinedBeforeOffers ==
    /\ last.op = "connect"
    /\ \E i, j \in DOMAIN sent :
          /\ i < j
          /\ sent[i].ev = "user-joined"
          /\ sent[j].ev = "webrtc-offer-received"

\* C31: a call-initiate toward a target with a registry entry adds one Call
\* to the map, pending, from the requesting user to the target, under the
\* call id that the target's socket is sent in incoming-call and the
\* requesting socket in call-initiated; the target's socket is sent no other
\* event by the request.
C31_InitiateCreatesOneCall ==
    [][(last'.op = "call-initiate" /\ Present(activeConnections, last'.target))
       => LET callee  == activeConnections[last'.target]
              ToCallee == {k \in DOMAIN sent' :
                              /\ sent'[k].to = callee
                              /\ ~(sent'[k].ev = "call-initiated"
                                   /\ last'.target = last'.user)}
          IN  /\ Len(activeCalls') = Len(activeCalls) + 1
              /\ HasCall(activeCalls', last'.callId)
              /\ GetCall(activeCalls', last'.callId).status = "pending"
              /\ GetCall(activeCalls', last'.callId).callerUserId = last'.user
              /\ GetCall(activeCalls', last'.callId).calleeUserId = last'.target
              /\ Cardinality(ToCallee) = 1
              /\ \A k \in ToCallee :
                    sent'[k].ev = "incoming-call" /\ sent'[k].callId = last'.callId
              /\ \E k \in DOMAIN sent' :
                    /\ sent'[k].to = last'.sock
                    /\ sent'[k].ev = "call-initiated"
                    /\ sent'[k].callId = last'.callId]_vars

\* a call-initiate from one user to another sent the target's socket the
\* event 'test' beside incoming-call
C31_TestEventToCallee ==
    /\ last.op = "call-initiate"
    /\ last.ok
    /\ last.target # last.user
    /\ \E j, k \in DOMAIN sent :
          /\ sent[j].to = activeConnections[last.target]
          /\ sent[k].to = activeConnections[last.target]
          /\ sent[j].ev = "test"
          /\ sent[k].ev = "incoming-call"

\* C32: a call-initiate that creates a Call does so under a call id that has
\* no entry in the Call map, and every Call that was in the map is still
\* there unchanged.
C32_FreshCallId ==
    [][(last'.op = "call-initiate" /\ last'.ok)
       => /\ ~HasCall(activeCalls, last'.callId)
          /\ \A i \in DOMAIN activeCalls : activeCalls'[i] = activeCalls[i]]_vars

\* C33: when the handler of a respond-invite with response 'accept', sent by
\* the recipient of an invite that is pending, comes to its end, a Chat of
\* the two users is in the store and invite-accepted has been sent to the
\* responding socket and to the socket of the invite's sender.
C33_AcceptAnnouncesChat ==
    [][(/\ last'.op = "respond-invite"
        /\ last'.response = "accept"
        /\ last'.step # "receive"
        /\ invites[last'.invite].status = "pending"
        /\ \E k \in DOMAIN tasks :
              /\ tasks[k].op = "respond-invite"
              /\ tasks[k].invite = last'.invite
              /\ tasks[k].loaded = "pending"
              /\ tasks'[k] = Idle)
       => LET inv == invites[last'.invite]
          IN  /\ \E c \in DOMAIN chats' : PairOfChat(chats'[c]) = {inv.from, inv.to}
              /\ \E j \in DOMAIN sent' :
                    sent'[j].ev = "invite-accepted" /\ sent'[j].to = last'.sock
              /\ Present(activeConnections, inv.from)
                    => \E j \in DOMAIN sent' :
                          /\ sent'[j].ev = "invite-accepted"
                          /\ sent'[j].to = activeConnections[inv.from]]_vars

\* with both users registered, the recipient's 'accept' of a pending invite
\* ended in the error of the catch block, the invite still pending and no
\* Chat in the store
C33_AcceptFailed ==
    /\ last.op = "respond-invite"
    /\ last.response = "accept"
    /\ last.step = "save"
    /\ ~last.ok
    /\ sent = PlainError(last.sock, "Failed to respond to invite")
    /\ invites[last.invite].status = "pending"
    /\ invites[last.invite].to = last.user
    /\ Present(activeConnections, invites[last.invite].from)
    /\ Present(activeConnections, invites[last.invite].to)
    /\ chats = <<>>

\* C34: a call-accept naming a pending Call whose calleeUserId is not the
\* requesting user leaves that Call in the map with status pending.
C34_OnlyCalleeAccepts ==
    [][(/\ last'.op = "call-accept"
        /\ HasCall(activeCalls, last'.callId)
        /\ GetCall(activeCalls, last'.callId).status = "pending"
        /\ GetCall(activeCalls, last'.callId).calleeUserId # last'.user)
       => /\ HasCall(activeCalls', last'.callId)
          /\ GetCall(activeCalls', last'.callId).status = "pending"]_vars

\* the caller of a Call to another user sent call-accept for it and the Call
\* is accepted
C34_CallerAcceptedOwnCall ==
    /\ last.op = "call-accept"
    /\ HasCall(activeCalls, last.callId)
    /\ GetCall(activeCalls, last.callId).status = "accepted"
    /\ GetCall(activeCalls, last.callId).callerUserId = last.user
    /\ GetCall(activeCalls, last.callId).calleeUserId # last.user

\* C35: a call-reject, webrtc-answer or webrtc-connected request leaves in
\* the map, unchanged, every Call of which the requesting user is neither the
\* caller nor the callee.
C35_OnlyPartiesRemove ==
    [][last'.op \in RemovingOps
       => \A i \in DOMAIN activeCalls :
             ~Involves(activeCalls[i], last'.user)
                => \E j \in DOMAIN activeCalls' : activeCalls'[j] = activeCalls[i]]_vars

\* C36: for every Call in the map, the caller and the callee each have a
\* registry entry.
C36_PartiesRegistered ==
    \A i \in DOMAIN activeCalls :
        /\ Present(activeConnections, activeCalls[i].callerUserId)
        /\ Present(activeConnections, activeCalls[i].calleeUserId)

\* a Call stands in the map whose caller has an open socket and no registry
\* entry
C36_CallerUnregistered ==
    \E i \in DOMAIN activeCalls :
        /\ ~Present(activeConnections, activeCalls[i].callerUserId)
        /\ Present(activeConnections, activeCalls[i].calleeUserId)
        /\ \E s \in Sockets : Ready(s) /\ sockets[s].user = activeCalls[i].callerUserId

\* C37: the disconnect of a socket of a user whose registry entry is another
\* socket leaves the Call map as it is and sends no call-ended.
C37_OldHandleKeepsCalls ==
    [][(/\ last'.op = "disconnect"
        /\ Present(activeConnections, last'.user)
        /\ activeConnections[last'.user] # last'.sock)
       => /\ activeCalls' = activeCalls
          /\ \A k \in DOMAIN sent' : sent'[k].ev \notin TerminalEvents]_vars

\* the disconnect of a socket removed a Call of its user and sent call-ended
\* to the other party, while the user has another socket open
C37_OldHandleEndedCall ==
    /\ last.op = "disconnect"
    /\ \E i \in DOMAIN prev :
          /\ Involves(prev[i], last.user)
          /\ ~HasCall(activeCalls, prev[i].id)
    /\ \E k \in DOMAIN sent : sent[k].ev \in TerminalEvents
    /\ \E s \in Sockets : Ready(s) /\ sockets[s].user = last.user

\* C38: a run of cleanExpiredOffers, by the timer or at a connection, keeps
\* unchanged every pending Call aged at most 30 s and every accepted Call
\* aged at most 60 s; the timer's run keeps every buffered offer younger than
\* 5 minutes, the kept offers of a user in the order they had, and leaves the
\* registry as it is.
C38_SweepKeepsTheYoung ==
    [][last'.op \in {"sweep", "connect"}
       => /\ \A i \in DOMAIN activeCalls :
                LET c == activeCalls[i] IN
                (\/ c.status = "pending" /\ now - c.timestamp <= 30000
                 \/ c.status = "accepted" /\ now - c.timestamp <= 60000)
                => \E j \in DOMAIN activeCalls' : activeCalls'[j] = c
          /\ last'.op = "sweep"
                => /\ activeConnections' = activeConnections
                   /\ \A u \in Users :
                         LET old == pendingOffers[u]
                             new == pendingOffers'[u]
                             Young(o) == now - o.timestamp < 300000
                         IN  /\ \A i \in DOMAIN old :
                                   Young(old[i]) => \E j \in DOMAIN new : new[j] = old[i]
                             /\ \A i, j \in DOMAIN old :
                                   (i < j /\ Young(old[i]) /\ Young(old[j]))
                                   => \E k, l \in DOMAIN new :
                                         k < l /\ new[k] = old[i] /\ new[l] = old[j]]_vars

\* the timer's sweep ran over a pending Call aged exactly 30 s and over an
\* accepted Call, and both are in the map
C38_SweepAtTheLimit ==
    /\ last.op = "sweep"
    /\ \E i \in DOMAIN activeCalls :
          activeCalls[i].status = "pending" /\ now - activeCalls[i].timestamp = 30000
    /\ \E i \in DOMAIN activeCalls : activeCalls[i].status = "accepted"

\* C39: a user's isOnline field is true exactly when the registry has an
\* entry for the user.
C39_FlagAgreesWithRegistry ==
    \A u \in Users : isOnline[u] <=> Present(activeConnections, u)

\* a user who has logged in and has never opened a socket is flagged online
C39_OnlineWithoutSocket ==
    \E u \in Users :
        /\ isOnline[u]
        /\ ~Present(activeConnections, u)
        /\ \A s \in Sockets : sockets[s].pc = "free"
====
